---- MODULE Spec2Model ----
(***************************************************************************)
(* Model of the Profit & Loss page (ProfitLoss component): the time range  *)
(* selected by the user, the four query results, and the memoised          *)
(* profitData / statistics derived from them.                              *)
(*                                                                         *)
(* Time values are whole hours since 1970-01-01T00:00Z (every window       *)
(* boundary the code produces is a whole hour in the modelled zones).      *)
(* Decimal strings are [unscaled, scale] pairs; Numbers are integers in    *)
(* units of 10^-Resolution, so decimal arithmetic is exact (the binary     *)
(* representation error of IEEE doubles is not modelled).                  *)
(***************************************************************************)
EXTENDS Integers, Sequences, FiniteSets, TLC

(***************************************************************************)
(* Bounds of the model.                                                    *)
(***************************************************************************)
\* fractional decimal digits a Number carries
Resolution == 3
\* records per orders / returns snapshot
MaxOrders == 1
MaxReturns == 1
\* ledger transactions per accounts snapshot
MaxAccounts == 2

(***************************************************************************)
(* Optional (nullable) values: Null, or Some(v).                           *)
(***************************************************************************)
Null == <<>>
Some(v) == <<v>>
Get(o) == o[1]

Abs(x) == IF x < 0 THEN -x ELSE x

RECURSIVE Pow10(_)
Pow10(n) == IF n = 0 THEN 1 ELSE 10 * Pow10(n - 1)

(***************************************************************************)
(* Calendar arithmetic of the Date object (proleptic Gregorian calendar).  *)
(***************************************************************************)
HoursPerDay == 24

\* day number (days since 1970-01-01) of year y, month m (1..12), day d
DaysFromCivil(y, m, d) ==
  LET yy  == IF m <= 2 THEN y - 1 ELSE y
      era == yy \div 400
      yoe == yy - era * 400
      mp  == IF m > 2 THEN m - 3 ELSE m + 9
      doy == (153 * mp + 2) \div 5 + d - 1
      doe == yoe * 365 + yoe \div 4 - yoe \div 100 + doy
  IN  era * 146097 + doe - 719468

\* [year, month (0..11, as Date.getMonth), date] of a day number, in stages:
\* the month part mp of the day of the year, counted from 1 March
CivilOfMonthPart(y, doy, mp) ==
  [year  |-> IF mp < 10 THEN y ELSE y + 1,
   month |-> IF mp < 10 THEN mp + 2 ELSE mp - 10,
   date  |-> doy - (153 * mp + 2) \div 5 + 1]
CivilOfDayOfYear(y, doy) == CivilOfMonthPart(y, doy, (5 * doy + 2) \div 153)
CivilOfYearOfEra(era, doe, yoe) ==
  CivilOfDayOfYear(yoe + era * 400, doe - (365 * yoe + yoe \div 4 - yoe \div 100))
CivilOfDayOfEra(era, doe) ==
  CivilOfYearOfEra(era, doe,
    (doe - doe \div 1460 + doe \div 36524 - doe \div 146096) \div 365)
CivilOfShifted(zz) == CivilOfDayOfEra(zz \div 146097, zz % 146097)
CivilFromDays(z) == CivilOfShifted(z + 719468)

\* ECMAScript MakeDay: month and date may lie outside their ranges
MakeDay(year, month, date) ==
  DaysFromCivil(year + month \div 12, (month % 12) + 1, 1) + date - 1

\* 0 = Sunday
WeekDay(day) == (day + 4) % 7

FirstSundayOnOrAfter(day) == day + ((7 - WeekDay(day)) % 7)

(***************************************************************************)
(* Local time of the host.  Two zones: UTC, and America/New_York (EST,     *)
(* UTC-5; EDT, UTC-4, from the second Sunday of March 02:00 EST to the     *)
(* first Sunday of November 02:00 EDT).                                    *)
(***************************************************************************)
TimeZones == {"UTC", "America/New_York"}

DstStart(y) == FirstSundayOnOrAfter(DaysFromCivil(y, 3, 8)) * HoursPerDay + 7
DstEnd(y)   == FirstSundayOnOrAfter(DaysFromCivil(y, 11, 1)) * HoursPerDay + 6

\* offset of local time from UTC at time value t
InDst(y, t) == DstStart(y) <= t /\ t < DstEnd(y)
Offset(zone, t) ==
  IF zone = "UTC" THEN 0
  ELSE IF InDst(CivilFromDays(t \div HoursPerDay).year, t) THEN -4 ELSE -5

LocalTime(zone, t) == t + Offset(zone, t)

\* ECMAScript UTC(t): a skipped or repeated local time is interpreted with
\* the offset in force before the transition
ResolveLocal(std, dst, okStd, okDst) ==
  IF okStd /\ okDst THEN dst
  ELSE IF okStd THEN std
  ELSE IF okDst THEN dst
  ELSE std
UTC(zone, tlocal) ==
  IF zone = "UTC" THEN tlocal
  ELSE ResolveLocal(tlocal + 5, tlocal + 4,
                    Offset(zone, tlocal + 5) = -5, Offset(zone, tlocal + 4) = -4)

\* local calendar fields of a Date
LocalDay(zone, t)    == LocalTime(zone, t) \div HoursPerDay
LocalCivil(zone, t)  == CivilFromDays(LocalDay(zone, t))
getHours(zone, t)    == LocalTime(zone, t) % HoursPerDay
getDate(zone, t)     == LocalCivil(zone, t).date
getMonth(zone, t)    == LocalCivil(zone, t).month
getFullYear(zone, t) == LocalCivil(zone, t).year

\* Date.prototype.setHours(h) (minutes, seconds, ms are 0 at this resolution)
setHours(zone, t, h) == UTC(zone, LocalDay(zone, t) * HoursPerDay + h)

\* Date.prototype.setFullYear(y, m, d) / setMonth(m) / setDate(d)
setFullYear(zone, t, y, m, d) ==
  UTC(zone, MakeDay(y, m, d) * HoursPerDay + getHours(zone, t))
setMonth(zone, t, m) == setFullYear(zone, t, getFullYear(zone, t), m, getDate(zone, t))
setDate(zone, t, d)  == setFullYear(zone, t, getFullYear(zone, t), getMonth(zone, t), d)

\* date-fns
startOfDay(zone, t)   == setHours(zone, t, 0)
startOfMonth(zone, t) == setHours(zone, setDate(zone, t, 1), 0)
startOfYear(zone, t)  ==
  setHours(zone, setFullYear(zone, t, getFullYear(zone, t), 0, 1), 0)
addDays(zone, t, amount) == setDate(zone, t, getDate(zone, t) + amount)
addMonthsTo(zone, t, amount, dayOfMonth, endOfDesiredMonth) ==
  IF amount = 0 THEN t
  ELSE IF dayOfMonth >= getDate(zone, endOfDesiredMonth) THEN endOfDesiredMonth
  ELSE setFullYear(zone, t, getFullYear(zone, endOfDesiredMonth),
                   getMonth(zone, endOfDesiredMonth), dayOfMonth)
addMonths(zone, t, amount) ==
  addMonthsTo(zone, t, amount, getDate(zone, t),
    setFullYear(zone, t, getFullYear(zone, t), getMonth(zone, t) + amount + 1, 0))
subDays(zone, t, amount)   == addDays(zone, t, -amount)
subMonths(zone, t, amount) == addMonths(zone, t, -amount)
subYears(zone, t, amount)  == addMonths(zone, t, -amount * 12)

(***************************************************************************)
(* profitData: the windows.                                                *)
(***************************************************************************)
TimeRange == {"hourly", "daily", "monthly", "yearly"}

HourlyPeriods  == 24
DailyPeriods   == 30
MonthlyPeriods == 12
YearlyPeriods  == 5

\* the starts of the windows, oldest first (the first switch on timeRange)
periods(range, zone, now) ==
  CASE range = "hourly" ->
         [k \in 1..HourlyPeriods |->
            setHours(zone, now, getHours(zone, now) - (HourlyPeriods - k))]
    [] range = "daily" ->
         [k \in 1..DailyPeriods |->
            subDays(zone, startOfDay(zone, now), DailyPeriods - k)]
    [] range = "monthly" ->
         [k \in 1..MonthlyPeriods |->
            subMonths(zone, startOfMonth(zone, now), MonthlyPeriods - k)]
    [] range = "yearly" ->
         [k \in 1..YearlyPeriods |->
            subYears(zone, startOfYear(zone, now), YearlyPeriods - k)]
    [] OTHER -> <<>>

\* the end of the window that starts at period (the second switch)
nextPeriod(range, zone, period) ==
  CASE range = "hourly"  -> setHours(zone, period, getHours(zone, period) + 1)
    [] range = "daily"   -> setDate(zone, period, getDate(zone, period) + 1)
    [] range = "monthly" -> setMonth(zone, period, getMonth(zone, period) + 1)
    [] range = "yearly"  ->
         setFullYear(zone, period, getFullYear(zone, period) + 1,
                     getMonth(zone, period), getDate(zone, period))
    [] OTHER -> period

\* date-fns format(period, formatString): the local fields the pattern prints
format(zone, t, formatString) ==
  CASE formatString = "HH:00"    -> <<getHours(zone, t)>>
    [] formatString = "MMM dd"   -> <<getMonth(zone, t), getDate(zone, t)>>
    [] formatString = "MMM yyyy" -> <<getMonth(zone, t), getFullYear(zone, t)>>
    [] formatString = "yyyy"     -> <<getFullYear(zone, t)>>
    [] OTHER -> <<>>

formatStringOf(range) ==
  CASE range = "hourly"  -> "HH:00"
    [] range = "daily"   -> "MMM dd"
    [] range = "monthly" -> "MMM yyyy"
    [] range = "yearly"  -> "yyyy"
    [] OTHER -> ""

(***************************************************************************)
(* Numbers and decimal strings.                                            *)
(***************************************************************************)
\* the decimal string with the given digits: Dec(10000, 2) is "100.00"
Dec(unscaled, scale) == [unscaled |-> unscaled, scale |-> scale]

\* parseFloat(s.toString())
parseFloat(s) == s.unscaled * Pow10(Resolution - s.scale)

\* Number.prototype.toFixed(2): the nearest multiple of 0.01, ties away from 0
RoundTo(x, unit) == (Abs(x) + unit \div 2) \div unit
SignOf(x, n) == IF x < 0 THEN -n ELSE n
toFixed2(x) == Dec(SignOf(x, RoundTo(x, Pow10(Resolution - 2))), 2)

\* new Date(value): null converts to the time value 0
NewDate(value) == IF value = Null THEN 0 ELSE Get(value)

(***************************************************************************)
(* profitData: one row per window.                                         *)
(***************************************************************************)
\* new Map(products.map(p => [p.id, p])): a later entry replaces an earlier
productMap(ps) ==
  [id \in {ps[i].id : i \in DOMAIN ps} |->
     ps[CHOOSE i \in DOMAIN ps :
          /\ ps[i].id = id
          /\ \A j \in DOMAIN ps : ps[j].id = id => j <= i]]

InWindow(date, period, next) == date >= period /\ date < next

\* orders.filter(o => orderDate >= period && orderDate < nextPeriod)
periodOrders(os, period, next) ==
  SelectSeq(os, LAMBDA o : InWindow(NewDate(o.createdAt), period, next))

\* returns.filter(r => returnDate >= period && returnDate < nextPeriod)
periodReturns(rs, period, next) ==
  SelectSeq(rs, LAMBDA r : InWindow(NewDate(r.createdAt), period, next))

\* periodPurchases without the test of transactionType
periodPurchasesOfAnyType(as, period, next) ==
  SelectSeq(as, LAMBDA a : InWindow(NewDate(a.transactionDate), period, next))

\* accounts.filter(a => a.transactionType === "purchase" && ...)
periodPurchases(as, period, next) ==
  SelectSeq(as, LAMBDA a : /\ a.transactionType = "purchase"
                           /\ InWindow(NewDate(a.transactionDate), period, next))

\* addPurchase with the loss added as it is signed (Math.abs left out)
addPurchaseSigned(acc, profit) ==
  IF profit > 0 THEN [acc EXCEPT !.purchaseProfit = @ + profit]
  ELSE IF profit < 0 THEN [acc EXCEPT !.purchaseLoss = @ + profit]
  ELSE acc

\* addPurchase with a loss also counted into purchaseProfit
addPurchaseLossInBoth(acc, profit) ==
  IF profit > 0 THEN [acc EXCEPT !.purchaseProfit = @ + profit]
  ELSE IF profit < 0
    THEN [acc EXCEPT !.purchaseProfit = @ + Abs(profit), !.purchaseLoss = @ + Abs(profit)]
  ELSE acc

\* one step of the forEach over periodPurchases
addPurchase(acc, profit) ==
  IF profit > 0 THEN [acc EXCEPT !.purchaseProfit = @ + profit]
  ELSE IF profit < 0 THEN [acc EXCEPT !.purchaseLoss = @ + Abs(profit)]
  ELSE acc

\* let purchaseProfit = 0, purchaseLoss = 0; periodPurchases.forEach(...)
purchaseProfitLoss(purchases) ==
  LET acc[k \in 0..Len(purchases)] ==
        IF k = 0 THEN [purchaseProfit |-> 0, purchaseLoss |-> 0]
        ELSE addPurchase(acc[k - 1], parseFloat(purchases[k].profit))
  IN  acc[Len(purchases)]

\* periodOrders.reduce((sum, order) => sum + parseFloat(order.totalAmount), 0)
revenueOf(os) ==
  LET sum[k \in 0..Len(os)] ==
        IF k = 0 THEN 0 ELSE sum[k - 1] + parseFloat(os[k].totalAmount)
  IN  sum[Len(os)]

\* costPriceOf with a cost of 1.00 for an item without a cost basis
costPriceOfDefaultingToOne(pmap, productId) ==
  IF productId \in DOMAIN pmap /\ pmap[productId].costPrice # Null
    THEN parseFloat(Get(pmap[productId].costPrice))
    ELSE Pow10(Resolution)

\* product?.costPrice ? parseFloat(product.costPrice.toString()) : 0
costPriceOf(pmap, productId) ==
  IF productId \in DOMAIN pmap /\ pmap[productId].costPrice # Null
    THEN parseFloat(Get(pmap[productId].costPrice))
    ELSE 0

\* the inner forEach over the items of one order or return
itemsCost(pmap, items) ==
  LET sum[k \in 0..Len(items)] ==
        IF k = 0 THEN 0
        ELSE sum[k - 1] + costPriceOf(pmap, items[k].productId) * items[k].quantity
  IN  sum[Len(items)]

\* cogs / returnedCost: the outer forEach over the orders or returns
linesCost(pmap, recs) ==
  LET sum[k \in 0..Len(recs)] ==
        IF k = 0 THEN 0 ELSE sum[k - 1] + itemsCost(pmap, recs[k].items)
  IN  sum[Len(recs)]

\* periodReturns.reduce(... ret.refundAmount ? parseFloat(...) : 0 ...)
refundAmountOf(rs) ==
  LET sum[k \in 0..Len(rs)] ==
        IF k = 0 THEN 0
        ELSE sum[k - 1] + (IF rs[k].refundAmount # Null
                             THEN parseFloat(Get(rs[k].refundAmount)) ELSE 0)
  IN  sum[Len(rs)]

\* the split on salesDifference (gross)
grossSplit(salesDifference) ==
  IF salesDifference > 0
    THEN [salesProfit |-> salesDifference, salesLoss |-> 0]
  ELSE IF salesDifference < 0
    THEN [salesProfit |-> 0, salesLoss |-> Abs(salesDifference)]
  ELSE [salesProfit |-> 0, salesLoss |-> 0]

\* netSplit without the assignments that reset the other side
netSplitKeepsOtherSide(gross, netSalesDifference) ==
  IF netSalesDifference > 0
    THEN [gross EXCEPT !.salesProfit = netSalesDifference]
  ELSE IF netSalesDifference < 0
    THEN [gross EXCEPT !.salesLoss = Abs(netSalesDifference)]
  ELSE gross

\* the reassignment on netSalesDifference: neither branch runs when it is 0
netSplit(gross, netSalesDifference) ==
  IF netSalesDifference > 0
    THEN [salesProfit |-> netSalesDifference, salesLoss |-> 0]
  ELSE IF netSalesDifference < 0
    THEN [salesProfit |-> 0, salesLoss |-> Abs(netSalesDifference)]
  ELSE gross

\* the result object, each Number through parseFloat(x.toFixed(2))
rowOf(label, purchase, sales, netRevenue, netCost, nOrders, nReturns) ==
  [period         |-> label,
   purchaseProfit |-> parseFloat(toFixed2(purchase.purchaseProfit)),
   purchaseLoss   |-> parseFloat(toFixed2(purchase.purchaseLoss)),
   salesProfit    |-> parseFloat(toFixed2(sales.salesProfit)),
   salesLoss      |-> parseFloat(toFixed2(sales.salesLoss)),
   totalProfit    |-> parseFloat(toFixed2(purchase.purchaseProfit + sales.salesProfit)),
   totalLoss      |-> parseFloat(toFixed2(purchase.purchaseLoss + sales.salesLoss)),
   revenue        |-> parseFloat(toFixed2(netRevenue)),
   cost           |-> parseFloat(toFixed2(netCost)),
   orders         |-> nOrders,
   returns        |-> nReturns]

\* netRevenue, netCost, netSalesDifference and the final split
netRow(label, purchase, gross, netRevenue, netCost, nOrders, nReturns) ==
  rowOf(label, purchase, netSplit(gross, netRevenue - netCost),
        netRevenue, netCost, nOrders, nReturns)

\* salesDifference, its split, and the figures of the returns
salesRow(label, purchase, salesRevenue, salesCost, refundAmount, returnedCost, nOrders, nReturns) ==
  netRow(label, purchase, grossSplit(salesRevenue - salesCost),
         salesRevenue - refundAmount, salesCost - returnedCost, nOrders, nReturns)

\* the sums over the records the filters selected
filteredRow(label, pmap, pOrders, pReturns, pPurchases) ==
  salesRow(label, purchaseProfitLoss(pPurchases),
           revenueOf(pOrders), linesCost(pmap, pOrders),
           refundAmountOf(pReturns), linesCost(pmap, pReturns),
           Len(pOrders), Len(pReturns))

\* the callback of periods.map: the row of the window [period, next)
windowRow(label, pmap, os, rs, as, period, next) ==
  filteredRow(label, pmap, periodOrders(os, period, next),
              periodReturns(rs, period, next), periodPurchases(as, period, next))

periodRow(range, zone, pmap, os, rs, as, period) ==
  windowRow(format(zone, period, formatStringOf(range)), pmap, os, rs, as,
            period, nextPeriod(range, zone, period))

rowsOf(range, zone, starts, pmap, os, rs, as) ==
  [k \in DOMAIN starts |-> periodRow(range, zone, pmap, os, rs, as, starts[k])]

\* the useMemo callback of profitData, run at the instant t of new Date()
ProfitData(range, zone, t, ps, os, rs, as) ==
  rowsOf(range, zone, periods(range, zone, t), productMap(ps), os, rs, as)

(***************************************************************************)
(* statistics: the summary over the rows.                                  *)
(***************************************************************************)
\* rows.reduce((sum, d) => sum + d[field], 0)
sumField(rows, field) ==
  LET sum[k \in 0..Len(rows)] ==
        IF k = 0 THEN 0 ELSE sum[k - 1] + rows[k][field]
  IN  sum[Len(rows)]

\* (n / d) * 100 as the exact fraction num / den
Percent(n, d) == [num |-> n * 100, den |-> d]
ZeroPercent == [num |-> 0, den |-> 1]

\* products.reduce(... costPrice * p.stockQuantity ...)
inventoryValueOf(ps) ==
  LET sum[k \in 0..Len(ps)] ==
        IF k = 0 THEN 0
        ELSE sum[k - 1] + (IF ps[k].costPrice # Null
                             THEN parseFloat(Get(ps[k].costPrice)) ELSE 0)
                          * ps[k].stockQuantity
  IN  sum[Len(ps)]

\* summaryOf with returnRate computed without the test of totalOrders
summaryOfReturnRateUnguarded(totalPurchaseProfit, totalPurchaseLoss, totalSalesProfit, totalSalesLoss, totalProfit, totalLoss, netProfit, totalRevenue, totalCost, inventoryValue, totalOrders, totalReturns) ==
  [totalPurchaseProfit |-> totalPurchaseProfit,
   totalPurchaseLoss   |-> totalPurchaseLoss,
   totalSalesProfit    |-> totalSalesProfit,
   totalSalesLoss      |-> totalSalesLoss,
   totalProfit    |-> totalProfit,
   totalLoss      |-> totalLoss,
   netProfit      |-> netProfit,
   totalRevenue   |-> totalRevenue,
   totalCost      |-> totalCost,
   profitMargin   |-> IF totalRevenue > 0
                        THEN Percent(netProfit, totalRevenue) ELSE ZeroPercent,
   inventoryValue |-> inventoryValue,
   totalOrders    |-> totalOrders,
   totalReturns   |-> totalReturns,
   returnRate     |-> Percent(totalReturns, totalOrders)]

\* summaryOf with profitMargin computed without the test of totalRevenue
summaryOfMarginUnguarded(totalPurchaseProfit, totalPurchaseLoss, totalSalesProfit, totalSalesLoss, totalProfit, totalLoss, netProfit, totalRevenue, totalCost, inventoryValue, totalOrders, totalReturns) ==
  [totalPurchaseProfit |-> totalPurchaseProfit,
   totalPurchaseLoss   |-> totalPurchaseLoss,
   totalSalesProfit    |-> totalSalesProfit,
   totalSalesLoss      |-> totalSalesLoss,
   totalProfit    |-> totalProfit,
   totalLoss      |-> totalLoss,
   netProfit      |-> netProfit,
   totalRevenue   |-> totalRevenue,
   totalCost      |-> totalCost,
   profitMargin   |-> Percent(netProfit, totalRevenue),
   inventoryValue |-> inventoryValue,
   totalOrders    |-> totalOrders,
   totalReturns   |-> totalReturns,
   returnRate     |-> IF totalOrders > 0
                        THEN Percent(totalReturns, totalOrders) ELSE ZeroPercent]

\* the object statistics returns
summaryOf(totalPurchaseProfit, totalPurchaseLoss, totalSalesProfit, totalSalesLoss, totalProfit, totalLoss, netProfit, totalRevenue, totalCost, inventoryValue, totalOrders, totalReturns) ==
  [totalPurchaseProfit |-> totalPurchaseProfit,
   totalPurchaseLoss   |-> totalPurchaseLoss,
   totalSalesProfit    |-> totalSalesProfit,
   totalSalesLoss      |-> totalSalesLoss,
   totalProfit    |-> totalProfit,
   totalLoss      |-> totalLoss,
   netProfit      |-> netProfit,
   totalRevenue   |-> totalRevenue,
   totalCost      |-> totalCost,
   profitMargin   |-> IF totalRevenue > 0
                        THEN Percent(netProfit, totalRevenue) ELSE ZeroPercent,
   inventoryValue |-> inventoryValue,
   totalOrders    |-> totalOrders,
   totalReturns   |-> totalReturns,
   returnRate     |-> IF totalOrders > 0
                        THEN Percent(totalReturns, totalOrders) ELSE ZeroPercent]

\* netProfit and the sums of revenue, cost, orders and returns
totalsOf(totalPurchaseProfit, totalPurchaseLoss, totalSalesProfit, totalSalesLoss, totalProfit, totalLoss, rows, ps) ==
  summaryOf(totalPurchaseProfit, totalPurchaseLoss, totalSalesProfit, totalSalesLoss,
            totalProfit, totalLoss, totalProfit - totalLoss,
            sumField(rows, "revenue"), sumField(rows, "cost"),
            inventoryValueOf(ps), sumField(rows, "orders"), sumField(rows, "returns"))

\* totalProfit and totalLoss from the four component sums
componentsOf(totalPurchaseProfit, totalPurchaseLoss, totalSalesProfit, totalSalesLoss, rows, ps) ==
  totalsOf(totalPurchaseProfit, totalPurchaseLoss, totalSalesProfit, totalSalesLoss,
           totalPurchaseProfit + totalSalesProfit,
           totalPurchaseLoss + totalSalesLoss, rows, ps)

\* the useMemo callback of statistics
Statistics(rows, ps) ==
  componentsOf(sumField(rows, "purchaseProfit"), sumField(rows, "purchaseLoss"),
               sumField(rows, "salesProfit"), sumField(rows, "salesLoss"), rows, ps)

(***************************************************************************)
(* The database module of the server (shared/schema.ts): its bindings and  *)
(* the positions of its evaluation and of its async function.              *)
(***************************************************************************)
VARIABLES
  connectionString, \* process.env.DATABASE_URL || '', as its parts
  db,               \* let db: any
  mysqlDb,          \* let mysqlDb: any = null
  sqliteDb,         \* let sqliteDb: any = null
  hasBothDatabases, \* let hasBothDatabases = false
  pc,               \* the statement the evaluation of the module is at
  task,             \* where the async function is
  lastRead          \* what each importer last read from the binding db

server == <<connectionString, db, mysqlDb, sqliteDb, hasBothDatabases, pc, task, lastRead>>

\* the values of the bindings
Undefined    == "undefined"
NullRef      == "null"
SqliteHandle == "drizzleSqlite(sqliteConnection)"
MysqlHandle  == "drizzleMysql(mysqlConnection)"
NotRead      == "not read"

MaxReaders == 4
Readers == 1..MaxReaders

\* String.prototype.includes, on a string given as the sequence of its parts
includes(string, part) == \E i \in DOMAIN string : string[i] = part

\* const useMysql = connectionString && !connectionString.includes('file:')
useMysql == connectionString # <<>> /\ ~includes(connectionString, "file:")

\* the module after its declarations, before new Database('./local.db')
ModuleStart(Strings) ==
  /\ connectionString \in Strings
  /\ db = Undefined
  /\ mysqlDb = NullRef
  /\ sqliteDb = NullRef
  /\ hasBothDatabases = FALSE
  /\ pc = "sqlite"
  /\ task = "not started"
  /\ lastRead = [r \in Readers |-> NotRead]

(***************************************************************************)
(* The component: its state, and what a render commits.                    *)
(***************************************************************************)
VARIABLES
  zone,             \* the local time zone of the host
  now,              \* the instant new Date() gave the last run of profitData
  timeRange,        \* useState<TimeRange>
  products,         \* data of the four queries (default [])
  orders,
  returns,
  accounts,
  productsLoading,  \* isLoading of the four queries
  ordersLoading,
  returnsLoading,
  accountsLoading,
  profitData,       \* the memoised rows
  statistics        \* the memoised summary

data == <<products, orders, returns, accounts>>
loading == <<productsLoading, ordersLoading, returnsLoading, accountsLoading>>
client == <<zone, now, timeRange, data, loading, profitData, statistics>>
vars == <<client, server>>

isLoading == productsLoading \/ ordersLoading \/ returnsLoading \/ accountsLoading

\* Render with statistics computed from the rows of the run before
RenderWithStaleStatistics(range, ps, os, rs, as, t) ==
  /\ t >= now
  /\ now' = t
  /\ profitData' = ProfitData(range, zone, t, ps, os, rs, as)
  /\ statistics' = Statistics(profitData, ps)

\* a dependency of profitData changed: both memos run again, at instant t
Render(range, ps, os, rs, as, t) ==
  /\ t >= now
  /\ now' = t
  /\ profitData' = ProfitData(range, zone, t, ps, os, rs, as)
  /\ statistics' = Statistics(profitData', ps)

\* the first render: timeRange "daily", every query loading, data at its default []
InitWith(Zones, Clock) ==
  /\ zone \in Zones
  /\ now \in Clock
  /\ timeRange = "daily"
  /\ products = <<>>
  /\ orders = <<>>
  /\ returns = <<>>
  /\ accounts = <<>>
  /\ productsLoading = TRUE
  /\ ordersLoading = TRUE
  /\ returnsLoading = TRUE
  /\ accountsLoading = TRUE
  /\ profitData = ProfitData("daily", zone, now, <<>>, <<>>, <<>>, <<>>)
  /\ statistics = Statistics(profitData, <<>>)

\* onValueChange={(value) => setTimeRange(value as TimeRange)}
setTimeRange(value, t) ==
  /\ value # timeRange
  /\ timeRange' = value
  /\ Render(value, products, orders, returns, accounts, t)
  /\ UNCHANGED <<zone, data, loading>>
  /\ UNCHANGED server

\* the first fetch of useQuery(["/api/products"]) resolves
ProductsLoaded(snapshot, t) ==
  /\ productsLoading
  /\ productsLoading' = FALSE
  /\ products' = snapshot
  /\ Render(timeRange, snapshot, orders, returns, accounts, t)
  /\ UNCHANGED <<zone, timeRange, orders, returns, accounts,
                 ordersLoading, returnsLoading, accountsLoading>>
  /\ UNCHANGED server

\* the first fetch of useQuery(["/api/orders"]) resolves
OrdersLoaded(snapshot, t) ==
  /\ ordersLoading
  /\ ordersLoading' = FALSE
  /\ orders' = snapshot
  /\ Render(timeRange, products, snapshot, returns, accounts, t)
  /\ UNCHANGED <<zone, timeRange, products, returns, accounts,
                 productsLoading, returnsLoading, accountsLoading>>
  /\ UNCHANGED server

\* the first fetch of useQuery(["/api/returns"]) resolves
ReturnsLoaded(snapshot, t) ==
  /\ returnsLoading
  /\ returnsLoading' = FALSE
  /\ returns' = snapshot
  /\ Render(timeRange, products, orders, snapshot, accounts, t)
  /\ UNCHANGED <<zone, timeRange, products, orders, accounts,
                 productsLoading, ordersLoading, accountsLoading>>
  /\ UNCHANGED server

\* the first fetch of useQuery(["/api/accounts"]) resolves
AccountsLoaded(snapshot, t) ==
  /\ accountsLoading
  /\ accountsLoading' = FALSE
  /\ accounts' = snapshot
  /\ Render(timeRange, products, orders, returns, snapshot, t)
  /\ UNCHANGED <<zone, timeRange, products, orders, returns,
                 productsLoading, ordersLoading, returnsLoading>>
  /\ UNCHANGED server

(***************************************************************************)
(* The evaluation of the database module.  The async function runs up to   *)
(* its first await inside the call; what follows the await is a job that   *)
(* runs only once the evaluation of the module has run to completion.      *)
(***************************************************************************)
\* sqliteDb = drizzleSqlite(new Database('./local.db'), ...), which may throw
InitSqlite(opened) ==
  /\ pc = "sqlite"
  /\ IF opened
       THEN sqliteDb' = SqliteHandle /\ pc' = "async"
       ELSE sqliteDb' = sqliteDb /\ pc' = "threw"
  /\ UNCHANGED <<connectionString, db, mysqlDb, hasBothDatabases, task, lastRead>>
  /\ UNCHANGED client

\* (async () => { ... })(): the body up to the await, to its end without one
StartAsync(pooled) ==
  /\ pc = "async"
  /\ pc' = "default"
  /\ IF useMysql
       THEN IF pooled
              THEN task' = "awaiting" /\ db' = db
              ELSE task' = "failed" /\ db' = sqliteDb
       ELSE task' = "sqlite only" /\ db' = sqliteDb
  /\ UNCHANGED <<connectionString, mysqlDb, sqliteDb, hasBothDatabases, lastRead>>
  /\ UNCHANGED client

\* db = sqliteDb, and the export: the evaluation of the module is over
AssignDefault ==
  /\ pc = "default"
  /\ db' = sqliteDb
  /\ pc' = "done"
  /\ UNCHANGED <<connectionString, mysqlDb, sqliteDb, hasBothDatabases, task, lastRead>>
  /\ UNCHANGED client

\* QuerySucceeds as a job that may run before the evaluation is over
QuerySucceedsDuringEvaluation ==
  /\ task = "awaiting"
  /\ task' = "connected"
  /\ mysqlDb' = MysqlHandle
  /\ hasBothDatabases' = TRUE
  /\ db' = mysqlDb'
  /\ UNCHANGED <<connectionString, sqliteDb, pc, lastRead>>
  /\ UNCHANGED client

\* SELECT 1 succeeded: the rest of the try block
QuerySucceeds ==
  /\ task = "awaiting"
  /\ pc = "done"
  /\ task' = "connected"
  /\ mysqlDb' = MysqlHandle
  /\ hasBothDatabases' = TRUE
  /\ db' = mysqlDb'
  /\ UNCHANGED <<connectionString, sqliteDb, pc, lastRead>>
  /\ UNCHANGED client

\* SELECT 1 failed: the catch block
QueryFails ==
  /\ task = "awaiting"
  /\ pc = "done"
  /\ task' = "failed"
  /\ db' = sqliteDb
  /\ UNCHANGED <<connectionString, mysqlDb, sqliteDb, hasBothDatabases, pc, lastRead>>
  /\ UNCHANGED client

\* an importer reads the exported binding db
ReadDb(reader) ==
  /\ pc = "done"
  /\ lastRead[reader] # db
  /\ lastRead' = [lastRead EXCEPT ![reader] = db]
  /\ UNCHANGED <<connectionString, db, mysqlDb, sqliteDb, hasBothDatabases, pc, task>>
  /\ UNCHANGED client

(***************************************************************************)
(* Inputs.                                                                 *)
(***************************************************************************)
\* the time value of year-month-day hour:00 UTC
T(y, m, d, h) == DaysFromCivil(y, m, d) * HoursPerDay + h

SeqsUpTo(S, n) == UNION {[1..k -> S] : k \in 0..n}

\* the values the Select offers, and one it does not
TimeRangeInputs == TimeRange \cup {"weekly"}

Item(id, qty) == [productId |-> id, quantity |-> qty]
Order(at, amount, items) ==
  [createdAt |-> at, totalAmount |-> amount, items |-> items]
Return(at, refund, items) ==
  [createdAt |-> at, refundAmount |-> refund, items |-> items]
Account(at, type, profit) ==
  [transactionDate |-> at, transactionType |-> type, profit |-> profit]

Catalog ==
  <<[id |-> "X", costPrice |-> Some(Dec(1000, 2)), stockQuantity |-> 3],
    [id |-> "Y", costPrice |-> Null, stockQuantity |-> 1]>>

(***************************************************************************)
(* Spec: the sales side.  One zone, one instant of the clock; orders and   *)
(* returns of 2024-06-15 (the last daily window).                          *)
(***************************************************************************)
SalesZones == {"UTC"}
SalesClock == {T(2024, 6, 15, 12)}

SalesOrderValues ==
  {Order(Some(T(2024, 6, 15, 9)), Dec(10000, 2), <<Item("X", 2)>>),
   Order(Some(T(2024, 6, 15, 9)), Dec(1000, 2), <<Item("X", 2)>>),
   Order(Some(T(2024, 6, 15, 9)), Dec(4, 3), <<>>)}

SalesReturnValues ==
  {Return(Some(T(2024, 6, 15, 10)), Some(Dec(10000, 2)), <<Item("X", 2)>>),
   Return(Some(T(2024, 6, 15, 10)), Null, <<Item("X", 2)>>),
   Return(Some(T(2024, 6, 15, 10)), Some(Dec(10000, 2)), <<>>)}

SalesAccountSnapshots ==
  {<<>>, <<Account(Some(T(2024, 6, 15, 8)), "purchase", Dec(4, 3))>>}

\* DATABASE_URL: unset, a file, MySQL, and a MySQL URL with file: in it
ConnectionStrings ==
  {<<>>, <<"file:", "./local.db">>, <<"mysql://", "root@db/stock">>,
   <<"mysql://", "root:", "file:", "@db/stock">>}

Init == InitWith(SalesZones, SalesClock) /\ ModuleStart({<<>>})

Next ==
  \/ \E value \in TimeRangeInputs, t \in SalesClock : setTimeRange(value, t)
  \/ \E snapshot \in {<<>>, Catalog}, t \in SalesClock : ProductsLoaded(snapshot, t)
  \/ \E snapshot \in SeqsUpTo(SalesOrderValues, MaxOrders), t \in SalesClock :
       OrdersLoaded(snapshot, t)
  \/ \E snapshot \in SeqsUpTo(SalesReturnValues, MaxReturns), t \in SalesClock :
       ReturnsLoaded(snapshot, t)
  \/ \E snapshot \in SalesAccountSnapshots, t \in SalesClock :
       AccountsLoaded(snapshot, t)

Spec == Init /\ [][Next]_vars

(***************************************************************************)
(* SpecPurchases: the purchase side.  Ledger transactions of 2024-06-15    *)
(* (the last daily window) and one of the day before; no orders, returns   *)
(* or products.                                                            *)
(***************************************************************************)
PurchaseAccountValues ==
  {Account(Some(T(2024, 6, 15, 8)), "purchase", Dec(500, 2)),
   Account(Some(T(2024, 6, 15, 8)), "purchase", Dec(-2500, 2)),
   Account(Some(T(2024, 6, 15, 8)), "purchase", Dec(0, 2)),
   Account(Some(T(2024, 6, 15, 8)), "purchase", Dec(4, 3)),
   Account(Some(T(2024, 6, 15, 8)), "sale", Dec(500, 2)),
   Account(Some(T(2024, 6, 15, 8)), "refund", Dec(-2500, 2)),
   Account(Some(T(2024, 6, 14, 8)), "purchase", Dec(-2500, 2))}

NextPurchases ==
  \/ \E value \in TimeRangeInputs, t \in SalesClock : setTimeRange(value, t)
  \/ \E snapshot \in SeqsUpTo(PurchaseAccountValues, MaxAccounts), t \in SalesClock :
       AccountsLoaded(snapshot, t)

SpecPurchases == Init /\ [][NextPurchases]_vars

(***************************************************************************)
(* SpecCosts: the cost side.  Orders and returns of 2024-06-15 whose lines *)
(* name item X (cost 10.00), item Y (no cost basis) and item Z (not in the *)
(* catalog); the catalog loads as Catalog or as [].                        *)
(***************************************************************************)
CostOrderValues ==
  {Order(Some(T(2024, 6, 15, 9)), Dec(10000, 2), <<Item("X", 2), Item("Y", 1), Item("Z", 3)>>),
   Order(Some(T(2024, 6, 15, 9)), Dec(10000, 2), <<Item("Y", 1)>>),
   Order(Some(T(2024, 6, 15, 9)), Dec(10000, 2), <<Item("Z", 3), Item("X", 1)>>)}

CostReturnValues ==
  {Return(Some(T(2024, 6, 15, 10)), Null, <<Item("X", 1), Item("Z", 1)>>),
   Return(Some(T(2024, 6, 15, 10)), Null, <<Item("Y", 2)>>)}

NextCosts ==
  \/ \E value \in TimeRangeInputs, t \in SalesClock : setTimeRange(value, t)
  \/ \E snapshot \in {<<>>, Catalog}, t \in SalesClock : ProductsLoaded(snapshot, t)
  \/ \E snapshot \in SeqsUpTo(CostOrderValues, MaxOrders), t \in SalesClock :
       OrdersLoaded(snapshot, t)
  \/ \E snapshot \in SeqsUpTo(CostReturnValues, MaxReturns), t \in SalesClock :
       ReturnsLoaded(snapshot, t)

SpecCosts == Init /\ [][NextCosts]_vars

(***************************************************************************)
(* SpecPeriods: the windows.  Both zones; the clock on the day daylight    *)
(* saving time starts in New York and on New Year's Day; records at window *)
(* boundaries, and records without an instant.                             *)
(***************************************************************************)
PeriodClock == {T(2024, 3, 10, 14), T(2025, 1, 1, 3)}

PeriodInstants ==
  {Some(T(2024, 3, 10, 7)), Some(T(2024, 3, 10, 5)), Null}

PeriodOrderSnapshots ==
  {<<>>} \cup {<<Order(at, Dec(10000, 2), <<>>)>> : at \in PeriodInstants}
PeriodReturnSnapshots ==
  {<<>>} \cup {<<Return(at, Null, <<>>)>> : at \in {Some(T(2024, 3, 10, 7)), Null}}
PeriodAccountSnapshots ==
  {<<>>} \cup {<<Account(at, "purchase", Dec(500, 2))>> :
                 at \in {Some(T(2024, 3, 10, 7)), Null}}

InitPeriods == InitWith(TimeZones, PeriodClock) /\ ModuleStart({<<>>})

NextPeriods ==
  \/ \E value \in TimeRangeInputs, t \in PeriodClock : setTimeRange(value, t)
  \/ \E snapshot \in PeriodOrderSnapshots, t \in PeriodClock : OrdersLoaded(snapshot, t)
  \/ \E snapshot \in PeriodReturnSnapshots, t \in PeriodClock : ReturnsLoaded(snapshot, t)
  \/ \E snapshot \in PeriodAccountSnapshots, t \in PeriodClock :
       AccountsLoaded(snapshot, t)

SpecPeriods == InitPeriods /\ [][NextPeriods]_vars

(***************************************************************************)
(* SpecDatabase: the load of the database module, for every DATABASE_URL   *)
(* and every outcome of opening SQLite, of creating the pool and of the    *)
(* test query, with importers reading db at any time after the load.       *)
(***************************************************************************)
InitDatabase == InitWith(SalesZones, SalesClock) /\ ModuleStart(ConnectionStrings)

NextDatabase ==
  \/ \E opened \in BOOLEAN : InitSqlite(opened)
  \/ \E pooled \in BOOLEAN : StartAsync(pooled)
  \/ AssignDefault
  \/ QuerySucceeds
  \/ QueryFails
  \/ \E reader \in Readers : ReadDb(reader)

SpecDatabase == InitDatabase /\ [][NextDatabase]_vars

(***************************************************************************)
(* What the claims speak of: the windows of the current state and the      *)
(* figures of a window, summed over the records whose instant lies in it.  *)
(***************************************************************************)
WindowStart(k) == periods(timeRange, zone, now)[k]
WindowEnd(k)   == nextPeriod(timeRange, zone, WindowStart(k))
Windows        == DOMAIN periods(timeRange, zone, now)

\* the record with instant `at` lies in window k
Within(at, k) == at # Null /\ WindowStart(k) <= Get(at) /\ Get(at) < WindowEnd(k)

RECURSIVE SumOver(_, _)
SumOver(f, S) ==
  IF S = {} THEN 0
  ELSE LET i == CHOOSE j \in S : TRUE IN f[i] + SumOver(f, S \ {i})

\* the value of a decimal string, and a Number rounded to 2 decimals
Amount(dec)  == dec.unscaled * Pow10(Resolution - dec.scale)
Rounded(x)   == Amount(toFixed2(x))

\* the catalog entries of an item (the last one is the one looked up)
EntriesOf(id) == {i \in DOMAIN products : products[i].id = id}
LastEntryOf(id) == CHOOSE i \in EntriesOf(id) : \A j \in EntriesOf(id) : j <= i
UnitCost(id) ==
  IF EntriesOf(id) # {} /\ products[LastEntryOf(id)].costPrice # Null
    THEN Amount(Get(products[LastEntryOf(id)].costPrice))
    ELSE 0
LineCost(items) ==
  SumOver([i \in DOMAIN items |-> UnitCost(items[i].productId) * items[i].quantity],
          DOMAIN items)

OrdersIn(k)    == {i \in DOMAIN orders : Within(orders[i].createdAt, k)}
ReturnsIn(k)   == {i \in DOMAIN returns : Within(returns[i].createdAt, k)}
PurchasesIn(k) == {i \in DOMAIN accounts : /\ accounts[i].transactionType = "purchase"
                                           /\ Within(accounts[i].transactionDate, k)}

GrossRevenue(k) ==
  SumOver([i \in DOMAIN orders |-> Amount(orders[i].totalAmount)], OrdersIn(k))
GrossCogs(k) ==
  SumOver([i \in DOMAIN orders |-> LineCost(orders[i].items)], OrdersIn(k))
RefundTotal(k) ==
  SumOver([i \in DOMAIN returns |->
             IF returns[i].refundAmount = Null THEN 0
             ELSE Amount(Get(returns[i].refundAmount))], ReturnsIn(k))
ReturnedCost(k) ==
  SumOver([i \in DOMAIN returns |-> LineCost(returns[i].items)], ReturnsIn(k))

GrossDifference(k) == GrossRevenue(k) - GrossCogs(k)
NetDifference(k) ==
  (GrossRevenue(k) - RefundTotal(k)) - (GrossCogs(k) - ReturnedCost(k))

\* every row is the row of a window
RowsMatchWindows == DOMAIN profitData = Windows

(***************************************************************************)
(* C1.  For every window the final sales split is a function of the net    *)
(* difference alone: salesProfit = net and salesLoss = 0 when net > 0,     *)
(* salesProfit = 0 and salesLoss = |net| when net < 0, and both 0 when the *)
(* net difference is 0, whatever the gross difference is.                  *)
(* The code leaves the gross split in place when the net difference is 0.  *)
(***************************************************************************)
C1_SalesSplitFollowsNet ==
  \A k \in DOMAIN profitData :
    /\ NetDifference(k) > 0 =>
         /\ profitData[k].salesProfit = Rounded(NetDifference(k))
         /\ profitData[k].salesLoss = 0
    /\ NetDifference(k) < 0 =>
         /\ profitData[k].salesProfit = 0
         /\ profitData[k].salesLoss = Rounded(-NetDifference(k))
    /\ NetDifference(k) = 0 =>
         /\ profitData[k].salesProfit = 0
         /\ profitData[k].salesLoss = 0

(***************************************************************************)
(* C3.  The rounded fields of every row add up exactly: totalProfit =      *)
(* purchaseProfit + salesProfit and totalLoss = purchaseLoss + salesLoss.  *)
(* The code rounds the total of the unrounded parts, not the rounded parts.*)
(***************************************************************************)
C3_RoundedTotalsAddUp ==
  \A k \in DOMAIN profitData :
    /\ profitData[k].totalProfit =
         profitData[k].purchaseProfit + profitData[k].salesProfit
    /\ profitData[k].totalLoss =
         profitData[k].purchaseLoss + profitData[k].salesLoss

(***************************************************************************)
(* C10.  In every row at most one of salesProfit and salesLoss is nonzero, *)
(* also when the gross and the net difference of the window have opposite  *)
(* signs or the net difference is 0.                                       *)
(***************************************************************************)
C10_SalesProfitLossExclusive ==
  \A k \in DOMAIN profitData :
    ~(profitData[k].salesProfit # 0 /\ profitData[k].salesLoss # 0)

\* a window whose gross and net difference have opposite signs, with its row
C10_Witness ==
  /\ RowsMatchWindows
  /\ \E k \in DOMAIN profitData :
       /\ GrossDifference(k) > 0
       /\ NetDifference(k) < 0
       /\ profitData[k].salesLoss = Rounded(-NetDifference(k))
       /\ profitData[k].salesLoss # 0
       /\ profitData[k].salesProfit = 0

ProfitOf(i) == Amount(accounts[i].profit)

C7_PurchaseSums ==
  /\ RowsMatchWindows
  /\ \A k \in DOMAIN profitData :
       /\ profitData[k].purchaseProfit =
            Rounded(SumOver([i \in DOMAIN accounts |-> ProfitOf(i)],
                            {i \in PurchasesIn(k) : ProfitOf(i) > 0}))
       /\ profitData[k].purchaseLoss =
            Rounded(SumOver([i \in DOMAIN accounts |-> Abs(ProfitOf(i))],
                            {i \in PurchasesIn(k) : ProfitOf(i) < 0}))

\* a window with a losing purchase and a purchase of profit 0
C7_Witness ==
  /\ RowsMatchWindows
  /\ \E k \in DOMAIN profitData :
       /\ \E i \in PurchasesIn(k) : ProfitOf(i) = 0
       /\ \E i \in PurchasesIn(k) : ProfitOf(i) < 0
       /\ profitData[k].purchaseLoss = 25 * Pow10(Resolution)
       /\ profitData[k].purchaseProfit = 0

(***************************************************************************)
(* The span of the windows, and the records in it.                         *)
(***************************************************************************)
LastWindow == Len(periods(timeRange, zone, now))
InSpan(at) ==
  /\ at # Null
  /\ Windows # {}
  /\ WindowStart(1) <= Get(at)
  /\ Get(at) < WindowEnd(LastWindow)
WindowsOf(at) == {k \in Windows : Within(at, k)}

(***************************************************************************)
(* C4.  Every order, return and purchase transaction whose instant lies in *)
(* [first window start, last window end) is selected by the filter of      *)
(* exactly one window, so the rows count each such order and return once.  *)
(***************************************************************************)
C4_ExactlyOneWindow ==
  /\ \A i \in DOMAIN orders :
       InSpan(orders[i].createdAt) => Cardinality(WindowsOf(orders[i].createdAt)) = 1
  /\ \A i \in DOMAIN returns :
       InSpan(returns[i].createdAt) => Cardinality(WindowsOf(returns[i].createdAt)) = 1
  /\ \A i \in DOMAIN accounts :
       (accounts[i].transactionType = "purchase" /\ InSpan(accounts[i].transactionDate))
         => Cardinality(WindowsOf(accounts[i].transactionDate)) = 1
  /\ sumField(profitData, "orders") =
       Cardinality({i \in DOMAIN orders : InSpan(orders[i].createdAt)})
  /\ sumField(profitData, "returns") =
       Cardinality({i \in DOMAIN returns : InSpan(returns[i].createdAt)})

(***************************************************************************)
(* C5.  The windows are contiguous and do not overlap: the end computed    *)
(* for window k is the start generated for window k + 1.                   *)
(***************************************************************************)
C5_WindowsContiguous ==
  \A k \in Windows : k < LastWindow => WindowEnd(k) = WindowStart(k + 1)

(***************************************************************************)
(* C6.  There are 24 hourly, 30 daily, 12 monthly and 5 yearly windows,    *)
(* oldest first with strictly increasing starts, and the last window       *)
(* contains the reference instant.                                         *)
(***************************************************************************)
C6_WindowSequence ==
  timeRange \in TimeRange =>
    /\ Len(profitData) = (CASE timeRange = "hourly"  -> 24
                            [] timeRange = "daily"   -> 30
                            [] timeRange = "monthly" -> 12
                            [] timeRange = "yearly"  -> 5)
    /\ RowsMatchWindows
    /\ \A k \in Windows : k < LastWindow => WindowStart(k) < WindowStart(k + 1)
    /\ WindowStart(LastWindow) <= now
    /\ now < WindowEnd(LastWindow)

(***************************************************************************)
(* The rows and the summary in the state are those of a run that returned  *)
(* for the current inputs.                                                 *)
(***************************************************************************)
RunCompleted ==
  /\ RowsMatchWindows
  /\ statistics = Statistics(profitData, products)

(***************************************************************************)
(* C8.  An order, return or ledger transaction without an instant makes    *)
(* the run fail; the run never completes with the record left out of every *)
(* window.                                                                 *)
(* The code converts the missing instant with new Date(null), the instant  *)
(* 0, which no window holds, and the run returns.                          *)
(***************************************************************************)
C8_MissingInstantNeverSkipped ==
  ~ /\ RunCompleted
    /\ \/ \E i \in DOMAIN orders :
            /\ orders[i].createdAt = Null
            /\ sumField(profitData, "orders") < Len(orders)
       \/ \E i \in DOMAIN returns :
            /\ returns[i].createdAt = Null
            /\ sumField(profitData, "returns") < Len(returns)
       \/ \E i \in DOMAIN accounts :
            /\ accounts[i].transactionDate = Null
            /\ accounts[i].transactionType = "purchase"
            /\ ProfitOf(i) > 0
            /\ sumField(profitData, "purchaseProfit") = 0

C11_MonetaryFieldsNonNegative ==
  \A k \in DOMAIN profitData :
    \A field \in {"purchaseProfit", "purchaseLoss", "salesProfit", "salesLoss",
                  "totalProfit", "totalLoss", "revenue", "cost"} :
      profitData[k][field] >= 0

(***************************************************************************)
(* C12.  Ledger transactions of a type other than purchase do not          *)
(* influence the output: the rows and the summary are those of the run on  *)
(* the same input with the non-purchase transactions removed.  Two inputs  *)
(* that differ only in their non-purchase transactions have the same       *)
(* purchases, so their runs have the same rows and the same summary.       *)
(***************************************************************************)
PurchasesOnly(as) == SelectSeq(as, LAMBDA a : a.transactionType = "purchase")

\* the committed output is the output of a run that gave these rows
OutputIs(rows) == profitData = rows /\ statistics = Statistics(rows, products)

C12_NonPurchaseIgnored ==
  OutputIs(ProfitData(timeRange, zone, now, products, orders, returns,
                      PurchasesOnly(accounts)))

\* a window with a purchase and a non-purchase transaction, both with a profit
\* other than 0, and the purchase in its row
C12_Witness ==
  \E k \in DOMAIN profitData :
    /\ k \in Windows
    /\ \E i \in DOMAIN accounts :
         /\ accounts[i].transactionType # "purchase"
         /\ Within(accounts[i].transactionDate, k)
         /\ Amount(accounts[i].profit) # 0
    /\ PurchasesIn(k) # {}
    /\ profitData[k].purchaseProfit + profitData[k].purchaseLoss # 0

(***************************************************************************)
(* C13.  The summary's totalProfit is the sum over the rows of totalProfit,*)
(* its totalLoss the sum over the rows of totalLoss, and netProfit =       *)
(* totalProfit - totalLoss.                                                *)
(* The code adds the sums of the rounded components; a row's totalProfit   *)
(* is the rounded sum of its unrounded components, so the two differ when  *)
(* the components round away.                                              *)
(***************************************************************************)
C13_SummaryTotalsAreRowTotals ==
  /\ statistics.totalProfit =
       SumOver([k \in DOMAIN profitData |-> profitData[k].totalProfit], DOMAIN profitData)
  /\ statistics.totalLoss =
       SumOver([k \in DOMAIN profitData |-> profitData[k].totalLoss], DOMAIN profitData)
  /\ statistics.netProfit = statistics.totalProfit - statistics.totalLoss

(***************************************************************************)
(* C14.  profitMargin is 0 whenever the net revenue summed over the rows   *)
(* is 0, whatever the profit and loss totals are, and netProfit is never   *)
(* divided by a totalRevenue of 0.                                         *)
(***************************************************************************)
C14_MarginGuard ==
  /\ statistics.profitMargin.den # 0
  /\ SumOver([k \in DOMAIN profitData |-> profitData[k].revenue], DOMAIN profitData) = 0
       => statistics.profitMargin = ZeroPercent

\* purchase profit only: the summary has a net profit and no revenue
C14_Witness ==
  /\ orders = <<>> /\ returns = <<>>
  /\ statistics.totalPurchaseProfit > 0
  /\ statistics.netProfit # 0
  /\ statistics.totalRevenue = 0
  /\ statistics.profitMargin = ZeroPercent

C16_MissingCostCountsZero ==
  /\ RowsMatchWindows
  /\ \A k \in DOMAIN profitData :
       /\ profitData[k].cost = Rounded(GrossCogs(k) - ReturnedCost(k))
       /\ profitData[k].salesProfit - profitData[k].salesLoss
            = IF NetDifference(k) = 0
                THEN Rounded(GrossDifference(k)) ELSE Rounded(NetDifference(k))

\* an order with a line of X, a line of Y and a line of Z, the catalog loaded:
\* the row's cost is that of the two X alone
C16_Witness ==
  /\ products = Catalog
  /\ returns = <<>>
  /\ \E k \in DOMAIN profitData :
       /\ \E i \in OrdersIn(k) :
            /\ \E l \in DOMAIN orders[i].items : orders[i].items[l].productId = "Y"
            /\ \E l \in DOMAIN orders[i].items : orders[i].items[l].productId = "Z"
            /\ \E l \in DOMAIN orders[i].items : orders[i].items[l].productId = "X"
       /\ profitData[k].cost = Amount(Dec(2000, 2))

\* a return with a line of Y alone: nothing comes off the cost
C16_ReturnWitness ==
  /\ products = Catalog
  /\ orders = <<>>
  /\ \E k \in DOMAIN profitData :
       /\ \E i \in ReturnsIn(k) : returns[i].items = <<Item("Y", 2)>>
       /\ profitData[k].cost = 0

(***************************************************************************)
(* C17.  With no orders, no returns and no ledger transactions, for every  *)
(* granularity every numeric field of every row is 0, and the summary has  *)
(* profitMargin = 0 and returnRate = 0, whatever the catalog holds.        *)
(***************************************************************************)
C17_EmptyInputAllZero ==
  (orders = <<>> /\ returns = <<>> /\ accounts = <<>>) =>
    /\ RowsMatchWindows
    /\ \A k \in DOMAIN profitData :
         \A field \in {"purchaseProfit", "purchaseLoss", "salesProfit", "salesLoss",
                       "totalProfit", "totalLoss", "revenue", "cost", "orders",
                       "returns"} :
           profitData[k][field] = 0
    /\ statistics.profitMargin = ZeroPercent
    /\ statistics.returnRate = ZeroPercent

\* every query has answered, with nothing but a catalog: five yearly rows of 0
C17_Witness ==
  /\ ~isLoading
  /\ orders = <<>> /\ returns = <<>> /\ accounts = <<>>
  /\ products = Catalog
  /\ statistics.inventoryValue > 0
  /\ timeRange = "yearly"
  /\ Len(profitData) = YearlyPeriods
  /\ \A k \in DOMAIN profitData : profitData[k].totalProfit = 0

(***************************************************************************)
(* C18.  In the selection of the database at the load of the module: once  *)
(* the evaluation of the module is over db is set, to sqliteDb or to       *)
(* mysqlDb, and no importer reads anything else; db is mysqlDb only after  *)
(* the test query succeeded, with mysqlDb not null and hasBothDatabases    *)
(* true, and the default assignment does not overwrite it; when MySQL is   *)
(* not configured or the connection fails, mysqlDb is null,                *)
(* hasBothDatabases is false and db is sqliteDb once the evaluation is     *)
(* over.                                                                   *)
(***************************************************************************)
C18_DatabaseSelection ==
  /\ pc = "done" => /\ db \in {SqliteHandle, MysqlHandle}
                    /\ db \in {sqliteDb, mysqlDb}
  /\ \A r \in Readers : lastRead[r] \in {NotRead, SqliteHandle, MysqlHandle}
  /\ db = MysqlHandle => /\ task = "connected"
                         /\ mysqlDb = MysqlHandle
                         /\ hasBothDatabases
  /\ (task = "connected" /\ pc = "done") => db = mysqlDb
  /\ (mysqlDb # NullRef \/ hasBothDatabases) => task = "connected"
  /\ (~useMysql \/ task = "failed") =>
       /\ mysqlDb = NullRef
       /\ ~hasBothDatabases
       /\ pc = "done" => db = SqliteHandle

\* MySQL selected after the load: one importer read db before the test query
\* succeeded, another after
C18_Witness ==
  /\ pc = "done"
  /\ task = "connected"
  /\ db = MysqlHandle
  /\ \E r \in Readers : lastRead[r] = SqliteHandle
  /\ \E r \in Readers : lastRead[r] = MysqlHandle

\* the test query failed after the load, and db is still the default
C18_FailureWitness ==
  /\ pc = "done"
  /\ task = "failed"
  /\ useMysql
  /\ db = SqliteHandle
====
